---- MODULE Spec2Model ----
(***************************************************************************)
(* Model of the `fetch` command of sonarflow (src/src/versioning/index.ts) *)
(* and of the SonarIssueExtractor it drives                                *)
(* (src/src/sonar/sonar-issue-extractor.ts, sonar-url-builder.ts).         *)
(*                                                                         *)
(* Strings are sequences of one-character strings, so that the regular     *)
(* expressions of the code are computed character by character.            *)
(***************************************************************************)
EXTENDS Integers, Sequences, FiniteSets, TLC

\* ------------------------------------------------------------------------
\* Bounds of the model
\* ------------------------------------------------------------------------
\* number of fragments a PR link argument is assembled from
MaxLinkFrags == 4
\* number of fragments a branch name is assembled from
MaxBranchFrags == 2
\* number of pull requests in one provider response
MaxPrs == 2
\* number of issues in one Sonar response
MaxIssues == 1
\* number of fragments that follow the host in a configured Sonar endpoint
MaxUrlFrags == 3
\* number of fragments of a branch name given to the branch-name heuristic
MaxHeuristicFrags == 3
\* number of issues of a payload whose severities are summarised
MaxSummaryIssues == 4

\* ------------------------------------------------------------------------
\* Strings
\* ------------------------------------------------------------------------
\* null / undefined of JavaScript, distinct from every character sequence
Null == <<"<null>">>

\* JavaScript truthiness of a string-or-null value
Truthy(s) == s # Null /\ s # <<>>

Digits == {"0", "1", "2", "3", "4", "5", "6", "7", "8", "9"}

IsDigit(c) == c \in Digits

\* the /i flag: characters are compared after case folding
ToLower(c) ==
    CASE c = "P" -> "p"
      [] c = "R" -> "r"
      [] c = "U" -> "u"
      [] c = "L" -> "l"
      [] c = "F" -> "f"
      [] c = "E" -> "e"
      [] c = "A" -> "a"
      [] c = "T" -> "t"
      [] c = "I" -> "i"
      [] c = "X" -> "x"
      [] c = "B" -> "b"
      [] c = "G" -> "g"
      [] OTHER -> c

\* s has the literal lit at position i (1-based), compared exactly
HasAt(s, i, lit) ==
    /\ i >= 1
    /\ i + Len(lit) - 1 <= Len(s)
    /\ \A k \in 1..Len(lit) : s[i + k - 1] = lit[k]

\* s has the literal lit at position i, compared case-insensitively
HasAtI(s, i, lit) ==
    /\ i >= 1
    /\ i + Len(lit) - 1 <= Len(s)
    /\ \A k \in 1..Len(lit) : ToLower(s[i + k - 1]) = ToLower(lit[k])

\* String.prototype.includes
Includes(s, lit) == \E i \in 1..(Len(s) + 1) : HasAt(s, i, lit)

\* String.prototype.endsWith, the `$` anchor after a literal
EndsWith(s, lit) == HasAt(s, Len(s) - Len(lit) + 1, lit)

\* the concatenation of a sequence of strings
RECURSIVE Concat(_)
Concat(ss) == IF ss = <<>> THEN <<>> ELSE Head(ss) \o Concat(Tail(ss))

\* all strings made of at most n fragments of the set frags
StringsOf(frags, n) ==
    { Concat(fs) : fs \in UNION { [1..k -> frags] : k \in 0..n } }

\* Number.prototype.toString() of a non-negative integer
DigitOf(d) ==
    CASE d = 0 -> "0" [] d = 1 -> "1" [] d = 2 -> "2" [] d = 3 -> "3"
      [] d = 4 -> "4" [] d = 5 -> "5" [] d = 6 -> "6" [] d = 7 -> "7"
      [] d = 8 -> "8" [] d = 9 -> "9"

RECURSIVE NumToString(_)
NumToString(n) ==
    IF n < 10 THEN <<DigitOf(n)>>
    ELSE NumToString(n \div 10) \o <<DigitOf(n % 10)>>

\* ------------------------------------------------------------------------
\* extractPrKeyFromLink: /pullRequest=([^&]+)/
\* ------------------------------------------------------------------------
PullRequestEq == <<"p", "u", "l", "l", "R", "e", "q", "u", "e", "s", "t", "=">>

\* the longest run of characters of s from position i on that satisfy the
\* class test (a greedy `+` / `*` of a character class)
RECURSIVE RunNotAmp_ToEnd(_, _)
RunNotAmp_ToEnd(s, i) ==
    IF i > Len(s) THEN <<>>
    ELSE <<s[i]>> \o RunNotAmp_ToEnd(s, i + 1)

RECURSIVE RunNotAmp(_, _)
RunNotAmp(s, i) ==
    IF i > Len(s) \/ s[i] = "&" THEN <<>>
    ELSE <<s[i]>> \o RunNotAmp(s, i + 1)

\* the regex matches at position i: the literal, then at least one non-'&'
PrKeyMatchesAt_EmptyKey(s, i) == HasAt(s, i, PullRequestEq)

PrKeyMatchesAt(s, i) ==
    /\ HasAt(s, i, PullRequestEq)
    /\ RunNotAmp(s, i + Len(PullRequestEq)) # <<>>

\* String.prototype.match: capture group 1 of the leftmost match, or Null
PrKeyMatch(prLink) ==
    LET starts == { i \in 1..Len(prLink) : PrKeyMatchesAt(prLink, i) }
    IN  IF starts = {} THEN Null
        ELSE LET i == CHOOSE j \in starts : \A k \in starts : j <= k
             IN  RunNotAmp(prLink, i + Len(PullRequestEq))

\* ------------------------------------------------------------------------
\* Branch-name heuristic:
\* /(?:pr\/|PR\/|pull\/|PULL\/)(\d+)|(?:feat\/|feature\/|fix\/|bugfix\/).*?(\d+)/i
\* ------------------------------------------------------------------------
PrPrefixes == { <<"p", "r", "/">>, <<"p", "u", "l", "l", "/">> }

FeatPrefixes ==
    { <<"f", "e", "a", "t", "/">>,
      <<"f", "e", "a", "t", "u", "r", "e", "/">>,
      <<"f", "i", "x", "/">>,
      <<"b", "u", "g", "f", "i", "x", "/">> }

\* greedy \d+ from position i on
RECURSIVE RunDigits(_, _)
RunDigits(s, i) ==
    IF i > Len(s) \/ ~IsDigit(s[i]) THEN <<>>
    ELSE <<s[i]>> \o RunDigits(s, i + 1)

\* lazy .*? followed by \d+ : the first digit run at or after position i
RECURSIVE FirstDigitRunFrom(_, _)
FirstDigitRunFrom(s, i) ==
    IF i > Len(s) THEN <<>>
    ELSE IF IsDigit(s[i]) THEN RunDigits(s, i)
    ELSE FirstDigitRunFrom(s, i + 1)

\* capture group 1 of the first alternative at position i, <<>> if no match
PrAltAt(s, i) ==
    LET ps == { p \in PrPrefixes :
                  HasAtI(s, i, p) /\ RunDigits(s, i + Len(p)) # <<>> }
    IN  IF ps = {} THEN <<>>
        ELSE LET p == CHOOSE q \in ps : TRUE IN RunDigits(s, i + Len(p))

\* capture group 2 of the second alternative at position i, <<>> if no match
FeatAltAt(s, i) ==
    LET ps == { p \in FeatPrefixes :
                  HasAtI(s, i, p) /\ FirstDigitRunFrom(s, i + Len(p)) # <<>> }
    IN  IF ps = {} THEN <<>>
        ELSE LET p == CHOOSE q \in ps : TRUE IN FirstDigitRunFrom(s, i + Len(p))

\* prNumberRegex.exec(branch): match[1] || match[2] of the leftmost match
\* (the first alternative is tried first at each position), or Null
PrNumberRegexExec_FirstAlternativeOnly(branch) ==
    LET starts == { i \in 1..Len(branch) : PrAltAt(branch, i) # <<>> }
    IN  IF starts = {} THEN Null
        ELSE LET i == CHOOSE j \in starts : \A k \in starts : j <= k
             IN  PrAltAt(branch, i)

PrNumberRegexExec(branch) ==
    LET starts == { i \in 1..Len(branch) :
                      PrAltAt(branch, i) # <<>> \/ FeatAltAt(branch, i) # <<>> }
    IN  IF starts = {} THEN Null
        ELSE LET i == CHOOSE j \in starts : \A k \in starts : j <= k
             IN  IF PrAltAt(branch, i) # <<>> THEN PrAltAt(branch, i)
                 ELSE FeatAltAt(branch, i)

\* extractPrNumberFromBranch of pr-detection-utils: the heuristic of the
\* detectors, factored out; the id found in the branch name, or Null
extractPrNumberFromBranch(branch) == PrNumberRegexExec(branch)


\* buildGitHubPrApiUrl of pr-detection-utils: the GitHub "list pull requests"
\* query for a branch and a state
buildGitHubPrApiUrl(branch, state) == [head |-> branch, state |-> state]

\* buildBitbucketPrApiUrl of pr-detection-utils: the Bitbucket "search pull
\* requests" query, q=source.branch.name="<branch>"
buildBitbucketPrApiUrl(branch) == [q |-> branch]

\* ------------------------------------------------------------------------
\* SonarUrlBuilder
\* ------------------------------------------------------------------------
FileLine == <<"F", "I", "L", "E", "_", "L", "I", "N", "E">>
PageSize == <<"1", "0", "0">>
AllFields == <<"_", "a", "l", "l">>

\* the parameters common to every request (URLSearchParams as a map)
CommonParams == [s |-> FileLine, ps |-> PageSize, additionalFields |-> AllFields]

\* URLSearchParams.set
SetParam(params, name, value) == (name :> value) @@ params

HasParam(params, name) == name \in DOMAIN params

\* buildUrl: overlays branch and pullRequest, each only when truthy
buildUrl(params, options) ==
    LET withBranch ==
            IF Truthy(options.branch)
            THEN SetParam(params, "branch", options.branch) ELSE params
    IN  IF Truthy(options.pullRequest)
        THEN SetParam(withBranch, "pullRequest", options.pullRequest)
        ELSE withBranch

\* the constructor: the mode and the component of the setup; timeZone is a
\* field of SonarSetupConfig that the constructor leaves undefined
Undefined ==
    <<"u", "n", "d", "e", "f", "i", "n", "e", "d">>

\* a value inside a template literal
Stringify(v) == IF v = Null THEN Undefined ELSE v

SonarUrlBuilder_PublicFlagOnly(config) ==
    LET component == IF Truthy(config.sonarProjectKey)
                     THEN config.sonarProjectKey ELSE config.repoName
    IN  [isSonarCloud |-> config.publicSonar,
         componentKeys |-> config.sonarComponentKeys,
         organization |-> config.sonarOrganization,
         component |-> IF Truthy(config.gitOrganization)
                       THEN config.gitOrganization \o <<"/">> \o Stringify(component)
                       ELSE component,
         timeZone |-> Null]

SonarUrlBuilder(config) ==
    LET component == IF Truthy(config.sonarProjectKey)
                     THEN config.sonarProjectKey ELSE config.repoName
    IN  [isSonarCloud |-> /\ config.publicSonar
                          /\ Truthy(config.sonarComponentKeys)
                          /\ Truthy(config.sonarOrganization),
         componentKeys |-> config.sonarComponentKeys,
         organization |-> config.sonarOrganization,
         component |-> IF Truthy(config.gitOrganization)
                       THEN config.gitOrganization \o <<"/">> \o Stringify(component)
                       ELSE component,
         timeZone |-> Null]

OpenConfirmed ==
    <<"O", "P", "E", "N", ",", "C", "O", "N", "F", "I", "R", "M", "E", "D">>

ConfirmedOpen ==
    <<"C", "O", "N", "F", "I", "R", "M", "E", "D", ",", "O", "P", "E", "N">>

CloudFacets ==
    <<"i", "m", "p", "a", "c", "t", "S", "o", "f", "t", "w", "a", "r", "e",
      "Q", "u", "a", "l", "i", "t", "i", "e", "s", ",", "i", "m", "p", "a",
      "c", "t", "S", "e", "v", "e", "r", "i", "t", "i", "e", "s">>

ServerFacets ==
    <<"c", "l", "e", "a", "n", "C", "o", "d", "e", "A", "t", "t", "r", "i",
      "b", "u", "t", "e", "C", "a", "t", "e", "g", "o", "r", "i", "e", "s",
      ",", "i", "m", "p", "a", "c", "t", "S", "o", "f", "t", "w", "a", "r",
      "e", "Q", "u", "a", "l", "i", "t", "i", "e", "s", ",", "s", "e", "v",
      "e", "r", "i", "t", "i", "e", "s", ",", "t", "y", "p", "e", "s", ",",
      "i", "m", "p", "a", "c", "t", "S", "e", "v", "e", "r", "i", "t", "i",
      "e", "s", ",", "c", "o", "d", "e", "V", "a", "r", "i", "a", "n", "t",
      "s">>

True == <<"t", "r", "u", "e">>

\* params.set(name, value) when the value is truthy
SetIfTruthy(params, name, value) ==
    IF Truthy(value) THEN SetParam(params, name, value) ELSE params

\* buildBaseParams: the parameters of the mode
buildBaseParams_ServerOnly(setup) ==
    SetIfTruthy(
      SetIfTruthy(
        SetParam(
          SetParam(SetParam(CommonParams, "inNewCodePeriod", True),
                   "issueStatuses", ConfirmedOpen),
          "facets", ServerFacets),
        "components", setup.component),
      "timeZone", setup.timeZone)

buildBaseParams(setup) ==
    IF setup.isSonarCloud
    THEN SetIfTruthy(
           SetIfTruthy(
             SetParam(SetParam(CommonParams, "issueStatuses", OpenConfirmed),
                      "facets", CloudFacets),
             "componentKeys", setup.componentKeys),
           "organization", setup.organization)
    ELSE SetIfTruthy(
           SetIfTruthy(
             SetParam(
               SetParam(SetParam(CommonParams, "inNewCodePeriod", True),
                        "issueStatuses", ConfirmedOpen),
               "facets", ServerFacets),
             "components", setup.component),
           "timeZone", setup.timeZone)

\* the order in which the names are set, which URLSearchParams keeps
ParamOrder(isSonarCloud) ==
    IF isSonarCloud
    THEN <<"s", "ps", "additionalFields", "issueStatuses", "facets",
           "componentKeys", "organization", "branch", "pullRequest">>
    ELSE <<"s", "ps", "additionalFields", "inNewCodePeriod", "issueStatuses",
           "facets", "components", "timeZone", "branch", "pullRequest">>

\* the characters of the parameter names
NameChars ==
    [ s |-> <<"s">>,
      ps |-> <<"p", "s">>,
      additionalFields |-> <<"a", "d", "d", "i", "t", "i", "o", "n", "a", "l", "F", "i", "e", "l", "d", "s">>,
      issueStatuses |-> <<"i", "s", "s", "u", "e", "S", "t", "a", "t", "u", "s", "e", "s">>,
      facets |-> <<"f", "a", "c", "e", "t", "s">>,
      componentKeys |-> <<"c", "o", "m", "p", "o", "n", "e", "n", "t", "K", "e", "y", "s">>,
      organization |-> <<"o", "r", "g", "a", "n", "i", "z", "a", "t", "i", "o", "n">>,
      inNewCodePeriod |-> <<"i", "n", "N", "e", "w", "C", "o", "d", "e", "P", "e", "r", "i", "o", "d">>,
      components |-> <<"c", "o", "m", "p", "o", "n", "e", "n", "t", "s">>,
      timeZone |-> <<"t", "i", "m", "e", "Z", "o", "n", "e">>,
      branch |-> <<"b", "r", "a", "n", "c", "h">>,
      pullRequest |-> <<"p", "u", "l", "l", "R", "e", "q", "u", "e", "s", "t">> ]

\* application/x-www-form-urlencoded serialization of one character
EncodeChar(c) ==
    CASE c = " " -> <<"+">>
      [] c = "," -> <<"%", "2", "C">>
      [] c = "/" -> <<"%", "2", "F">>
      [] c = "&" -> <<"%", "2", "6">>
      [] c = "=" -> <<"%", "3", "D">>
      [] c = "?" -> <<"%", "3", "F">>
      [] c = ":" -> <<"%", "3", "A">>
      [] OTHER -> <<c>>

\* the serialization of a value, character by character (computed by halves)
RECURSIVE Encode(_)
Encode(v) ==
    IF v = <<>> THEN <<>>
    ELSE IF Len(v) = 1 THEN EncodeChar(v[1])
    ELSE Encode(SubSeq(v, 1, Len(v) \div 2))
         \o Encode(SubSeq(v, Len(v) \div 2 + 1, Len(v)))

\* URLSearchParams.toString: name=value pairs joined by '&', in order
RECURSIVE ParamsToString(_, _)
ParamsToString(params, order) ==
    IF order = <<>> THEN <<>>
    ELSE LET rest == ParamsToString(params, Tail(order))
             name == Head(order)
         IN  IF ~HasParam(params, name) THEN rest
             ELSE NameChars[name] \o <<"=">> \o Encode(params[name])
                  \o (IF rest = <<>> THEN <<>> ELSE <<"&">> \o rest)

\* `${this.baseUrl}?${params.toString()}` of buildUrl
UrlString(baseUrl, setup, options) ==
    baseUrl \o <<"?">>
    \o ParamsToString(buildUrl(buildBaseParams(setup), options),
                      ParamOrder(setup.isSonarCloud))

\* normalizeUrl
ProjectIssues ==
    <<"/", "p", "r", "o", "j", "e", "c", "t", "/", "i", "s", "s", "u", "e",
      "s">>

ApiIssues ==
    <<"/", "a", "p", "i", "/", "i", "s", "s", "u", "e", "s">>

ApiIssuesSearch ==
    <<"/", "a", "p", "i", "/", "i", "s", "s", "u", "e", "s", "/", "s", "e",
      "a", "r", "c", "h">>

\* the default of SONAR_BASE_URL
DefaultSonarBaseUrl ==
    <<"h", "t", "t", "p", "s", ":", "/", "/", "s", "o", "n", "a", "r", "c",
      "l", "o", "u", "d", ".", "i", "o", "/", "a", "p", "i", "/", "i", "s",
      "s", "u", "e", "s", "/", "s", "e", "a", "r", "c", "h">>

\* [^/]*$ : no '/' from position i to the end
NoSlashFrom(s, i) == \A k \in i..Len(s) : s[k] # "/"

\* .replace(/\/project\/issues[^/]*$/, ""): the leftmost match is removed;
\* it reaches the end of the string
StripProjectIssues(s) ==
    LET starts == { i \in 1..Len(s) :
                      /\ HasAt(s, i, ProjectIssues)
                      /\ NoSlashFrom(s, i + Len(ProjectIssues)) }
    IN  IF starts = {} THEN s
        ELSE LET i == CHOOSE j \in starts : \A k \in starts : j <= k
             IN  SubSeq(s, 1, i - 1)

\* .replace(/\/$/, "")
StripTrailingSlash(s) ==
    IF Len(s) > 0 /\ s[Len(s)] = "/" THEN SubSeq(s, 1, Len(s) - 1) ELSE s

\* .replace(/\/api\/issues$/, "")
StripApiIssues(s) ==
    IF EndsWith(s, ApiIssues) THEN SubSeq(s, 1, Len(s) - Len(ApiIssues)) ELSE s

normalizeUrl_AppendsAlways(baseUrl) ==
    StripApiIssues(StripTrailingSlash(StripProjectIssues(baseUrl)))
    \o ApiIssuesSearch

normalizeUrl(baseUrl) ==
    IF Includes(baseUrl, ApiIssuesSearch) THEN baseUrl
    ELSE StripApiIssues(StripTrailingSlash(StripProjectIssues(baseUrl)))
         \o ApiIssuesSearch

\* createUrlBuilder: config.sonarBaseUrl || this.sonarBaseUrlRaw, normalized
createUrlBuilder(sonarBaseUrl, sonarBaseUrlRaw) ==
    normalizeUrl(IF Truthy(sonarBaseUrl) THEN sonarBaseUrl ELSE sonarBaseUrlRaw)

\* ------------------------------------------------------------------------
\* Inputs of a run
\* ------------------------------------------------------------------------
Develop == <<"d", "e", "v", "e", "l", "o", "p">>

LinkFragments == { PullRequestEq, <<"&">>, <<"A", "B", "-", "1", "2">> }

\* the link of the README and of the error message, for project p and key AB-12
ExampleLink ==
    <<"h", "t", "t", "p", "s", ":", "/", "/", "s", "o", "n", "a", "r", "c", "l",
      "o", "u", "d", ".", "i", "o", "/", "p", "r", "o", "j", "e", "c", "t", "/",
      "i", "s", "s", "u", "e", "s", "?", "i", "d", "=", "p", "&">>
    \o PullRequestEq \o <<"A", "B", "-", "1", "2">>

BranchFragments == { <<"p", "r", "/">>, <<"f", "e", "a", "t", "/">>, <<"7">> }

\* the values of the second command-line argument (empty: not given)
Links == StringsOf(LinkFragments, MaxLinkFrags) \cup {ExampleLink}

\* the values of the first command-line argument and of
\* `git branch --show-current` (empty: not given / detached HEAD)
BranchNames == StringsOf(BranchFragments, MaxBranchFrags) \cup {Develop}

\* gitProvider of .sonarflowrc.json ("" when the key is absent)
GitProviders == {"github", "bitbucket", "gitlab", ""}

\* pull-request numbers a provider can answer with
PrNumbers == {7, 42}

\* the lists of distinct pull requests of at most MaxPrs elements
PrLists ==
    { l \in UNION { [1..k -> PrNumbers] : k \in 0..MaxPrs } :
        \A i, j \in 1..Len(l) : l[i] = l[j] => i = j }

NoBody == [shape |-> "none", prs |-> <<>>]

\* what a provider request can come back with: a thrown transport error, a
\* non-2xx status, or a 2xx whose body is not JSON ("invalid"), is JSON of
\* another shape ("other"), is a list whose first element carries no number
\* ("nonumber"), or is a list of pull requests
ProviderResponses ==
    { [kind |-> "throw", body |-> NoBody], [kind |-> "status", body |-> NoBody] }
    \cup { [kind |-> "ok", body |-> [shape |-> sh, prs |-> <<>>]] :
             sh \in {"invalid", "other", "nonumber"} }
    \cup { [kind |-> "ok", body |-> [shape |-> "list", prs |-> l]] : l \in PrLists }

Severities == {"MAJOR", ""}

IssueLists == UNION { [1..k -> Severities] : k \in 0..MaxIssues }

NoPayload == [hasIssues |-> FALSE, issues |-> <<>>]

Payloads == {NoPayload} \cup { [hasIssues |-> TRUE, issues |-> l] : l \in IssueLists }

ApplicationJson ==
    <<"a", "p", "p", "l", "i", "c", "a", "t", "i", "o", "n", "/", "j", "s",
      "o", "n">>

JsonUtf8 ==
    <<"a", "p", "p", "l", "i", "c", "a", "t", "i", "o", "n", "/", "j", "s",
      "o", "n", ";", " ", "c", "h", "a", "r", "s", "e", "t", "=", "u", "t",
      "f", "-", "8">>

TextHtml ==
    <<"t", "e", "x", "t", "/", "h", "t", "m", "l">>

\* contentType?.includes("application/json"); the header is Null when absent
IsJsonType(contentType) ==
    contentType # Null /\ Includes(contentType, ApplicationJson)

\* response.ok: the status is in the success range
Ok(r) == r.status >= 200 /\ r.status <= 299

\* what a server answers with when it delivers no payload: an empty body
\* without a declared type, an HTML login page, a JSON error document
\* (body lengths in characters)
ErrorPages ==
    { [contentType |-> Null, bodyLen |-> 0],
      [contentType |-> TextHtml, bodyLen |-> 600],
      [contentType |-> JsonUtf8, bodyLen |-> 350] }

\* the HTTP statuses of the responses: success, server error
Statuses == {200, 500}

\* what a Sonar request can come back with: a thrown transport error, or a
\* response with a content type, a status and a body that either parses to a
\* payload or does not (an error status may carry a JSON body too, one
\* without issues; a body of issues may come without a declared type)
SonarResponses ==
    { [kind |-> "throw", contentType |-> Null, status |-> 0, bodyLen |-> 0,
       parses |-> FALSE, payload |-> NoPayload] }
    \cup { [kind |-> "http", contentType |-> page.contentType, status |-> st,
            bodyLen |-> page.bodyLen, parses |-> FALSE, payload |-> NoPayload] :
             page \in ErrorPages, st \in Statuses }
    \cup { [kind |-> "http", contentType |-> JsonUtf8, status |-> 500,
            bodyLen |-> 350, parses |-> TRUE, payload |-> NoPayload] }
    \cup { [kind |-> "http", contentType |-> Null, status |-> 200,
            bodyLen |-> 350, parses |-> TRUE,
            payload |-> [hasIssues |-> TRUE, issues |-> <<"MAJOR">>]] }
    \cup { [kind |-> "http", contentType |-> ApplicationJson, status |-> 200,
            bodyLen |-> 350, parses |-> TRUE, payload |-> p] : p \in Payloads }

\* handleSonarResponse: "contentType", "http", "json" for the three failures,
\* "" when the payload is returned
handleSonarResponse_NoStatusCheck(r) ==
    IF ~IsJsonType(r.contentType) THEN "contentType"
    ELSE IF ~r.parses THEN "json"
    ELSE ""

handleSonarResponse(r) ==
    IF ~IsJsonType(r.contentType) THEN "contentType"
    ELSE IF ~Ok(r) THEN "http"
    ELSE IF ~r.parses THEN "json"
    ELSE ""

\* errorText.substring(0, n) of a body of bodyLen characters: its length
SubstringLen(bodyLen, n) == IF bodyLen < n THEN bodyLen ELSE n

\* the two cut-offs of handleSonarResponse
PreviewLimit == 500
ErrorBodyLimit == 200

\* what reaches the console: nothing yet, the error thrown by
\* handleSonarResponse with what it carries, or the success line
NoReport ==
    [kind |-> "none", contentType |-> Null, status |-> 0, bodyChars |-> 0,
     issueCount |-> 0]

\* lines 263-269: the declared type, the status, the body preview
contentTypeError_WholeBody(r) ==
    [kind |-> "contentType", contentType |-> r.contentType, status |-> r.status,
     bodyChars |-> r.bodyLen, issueCount |-> 0]

contentTypeError(r) ==
    [kind |-> "contentType", contentType |-> r.contentType, status |-> r.status,
     bodyChars |-> SubstringLen(r.bodyLen, PreviewLimit), issueCount |-> 0]

\* lines 272-277: the status and the start of the body
httpError_WholeBody(r) ==
    [kind |-> "http", contentType |-> Null, status |-> r.status,
     bodyChars |-> r.bodyLen, issueCount |-> 0]

httpError(r) ==
    [kind |-> "http", contentType |-> Null, status |-> r.status,
     bodyChars |-> SubstringLen(r.bodyLen, ErrorBodyLimit), issueCount |-> 0]

\* any other error: its kind only
otherError(kind) ==
    [kind |-> kind, contentType |-> Null, status |-> 0, bodyChars |-> 0,
     issueCount |-> 0]

\* what handleSonarResponse throws for a response it rejects
errorOf(r) ==
    CASE handleSonarResponse(r) = "contentType" -> contentTypeError(r)
      [] handleSonarResponse(r) = "http" -> httpError(r)
      [] OTHER -> otherError(handleSonarResponse(r))

\* issues.issues?.length || 0
IssueCount(p) == IF p.hasIssues THEN Len(p.issues) ELSE 0

\* line 150-154: the success line
successReport(p) ==
    [kind |-> "success", contentType |-> Null, status |-> 0, bodyChars |-> 0,
     issueCount |-> IssueCount(p)]

\* !issues.issues || issues.issues.length === 0
NoIssues_FieldRequired(p) == p.hasIssues /\ Len(p.issues) = 0

NoIssues(p) == ~p.hasIssues \/ Len(p.issues) = 0

\* the usedSource strings
SourceOfLink(link) == <<"P", "R", ":", " ">> \o link

SourceOfPrId(id, branch) ==
    <<"P", "R", " ", "#">> \o id
    \o <<" ", "(", "a", "u", "t", "o", "-", "d", "e", "t", "e", "c", "t", "e", "d",
         " ", "f", "r", "o", "m", " ", "b", "r", "a", "n", "c", "h", ":", " ">>
    \o branch \o <<")">>

\* ------------------------------------------------------------------------
\* State
\* ------------------------------------------------------------------------
VARIABLES
    pc,            \* position in fetchSonarIssues / the detector
    config,        \* .sonarflowrc.json: [exists, gitProvider]
    branchName,    \* args[0] || null
    sonarPrLink,   \* args[1] || null
    currentBranch, \* line 94
    extractor,     \* credential fields of the SonarIssueExtractor
    net,           \* the requests sent and responses received, in order
    detectedPrId,  \* result of detectPrId
    issues,        \* the payload held by fetchSonarIssues
    usedSource,    \* the source description
    stage,         \* which fetch call is in flight
    issuesFile,    \* content of issues.json, Null while not written
    exitCode,      \* -1 while running, then the process status
    errorMessage,  \* kind of the error caught at line 171
    report,        \* what the console shows of the failure or of the result
    fnArg,         \* argument of the function under study, Null in a run
    fnResult       \* its result

vars == <<pc, config, branchName, sonarPrLink, currentBranch, extractor, net,
          detectedPrId, issues, usedSource, stage, issuesFile, exitCode,
          errorMessage, report, fnArg, fnResult>>

NoExtractor == [gitToken |-> "", gitEmail |-> "", githubOwner |-> "",
                githubRepo |-> "", bitbucketBaseUrl |-> ""]

NotWritten == [written |-> FALSE, payload |-> NoPayload]

Init ==
    /\ pc = "loadConfiguration"
    /\ config \in { [exists |-> FALSE, gitProvider |-> ""] }
                  \cup { [exists |-> TRUE, gitProvider |-> g] : g \in GitProviders }
    /\ branchName \in { IF b = <<>> THEN Null ELSE b : b \in BranchNames }
    /\ sonarPrLink \in { IF l = <<>> THEN Null ELSE l : l \in Links }
    /\ currentBranch = Null
    /\ extractor = NoExtractor
    /\ net = <<>>
    /\ detectedPrId = Null
    /\ issues = NoPayload
    /\ usedSource = Null
    /\ stage = ""
    /\ issuesFile = NotWritten
    /\ exitCode = -1
    /\ errorMessage = ""
    /\ report = NoReport
    /\ fnArg = Null
    /\ fnResult = Null

\* the catch block of fetchSonarIssues: report and process.exit(1)
FailWith(kind, error) ==
    /\ pc' = "exit"
    /\ exitCode' = 1
    /\ errorMessage' = kind
    /\ report' = error

Fail(kind) == FailWith(kind, otherError(kind))

Request(api, query) == [type |-> "request", api |-> api, query |-> query, response |-> <<>>]

Response(api, r) == [type |-> "response", api |-> api, query |-> <<>>, response |-> <<r>>]

\* fetchIssues: build the URL and send the request
SendSonar(options, st) ==
    /\ net' = Append(net, Request("sonar", buildUrl(CommonParams, options)))
    /\ stage' = st
    /\ pc' = "awaitSonar"

\* ------------------------------------------------------------------------
\* fetchSonarIssues
\* ------------------------------------------------------------------------
\* lines 38-40 only: the file is there
configRejected_MissingOnly(c) == ~c.exists

\* lines 38-52 of index.ts: loadConfiguration throws when the file is
\* missing, when gitProvider is falsy, or when it is another provider
configRejected(c) ==
    \/ ~c.exists
    \/ c.gitProvider = ""
    \/ c.gitProvider \notin {"github", "bitbucket"}

LoadConfiguration ==
    /\ pc = "loadConfiguration"
    /\ IF configRejected(config)
       THEN Fail("config")
       ELSE /\ pc' = "getBranch"
            /\ UNCHANGED <<exitCode, errorMessage, report>>
    /\ UNCHANGED <<fnArg, fnResult, config, branchName, sonarPrLink, currentBranch, extractor, net,
                   detectedPrId, issues, usedSource, stage, issuesFile>>

\* branchName || execSync("git branch --show-current").trim()
GetCurrentBranch ==
    /\ pc = "getBranch"
    /\ \/ /\ Truthy(branchName)
          /\ currentBranch' = branchName
          /\ pc' = "dispatch"
          /\ UNCHANGED <<exitCode, errorMessage, report>>
       \/ /\ ~Truthy(branchName)
          /\ \E out \in BranchNames :
                /\ currentBranch' = out
                /\ pc' = "dispatch"
                /\ UNCHANGED <<exitCode, errorMessage, report>>
       \/ /\ ~Truthy(branchName)
          /\ currentBranch' = currentBranch
          /\ Fail("git")
    /\ UNCHANGED <<fnArg, fnResult, config, branchName, sonarPrLink, extractor, net,
                   detectedPrId, issues, usedSource, stage, issuesFile>>

\* line 104-108 with fetchIssuesForPr: the link is given
FetchIssuesForPr ==
    /\ pc = "dispatch"
    /\ Truthy(sonarPrLink)
    /\ LET prKey == PrKeyMatch(sonarPrLink)
       IN  IF prKey = Null
           THEN /\ Fail("link")
                /\ UNCHANGED <<net, stage>>
           ELSE /\ SendSonar([branch |-> Null, pullRequest |-> prKey], "link")
                /\ UNCHANGED <<exitCode, errorMessage, report>>
    /\ UNCHANGED <<fnArg, fnResult, config, branchName, sonarPrLink, currentBranch, extractor,
                   detectedPrId, issues, usedSource, issuesFile>>

\* ------------------------------------------------------------------------
\* SonarIssueExtractor: constructor and PR detection
\* ------------------------------------------------------------------------
EnvValues(v) == {"", v}

\* the constructor: the fields read from the environment, with the e-mail
\* falling back to `git config --get user.email` (which may print nothing or
\* fail) and the Bitbucket base URL falling back to its default
Extractors ==
    { [gitToken |-> tok,
       gitEmail |-> IF envEmail # "" THEN envEmail
                    ELSE IF cfgEmail = "throw" THEN "" ELSE cfgEmail,
       githubOwner |-> owner,
       githubRepo |-> repo,
       bitbucketBaseUrl |-> IF bbUrl # "" THEN bbUrl
                            ELSE "https://api.bitbucket.org/2.0/repositories"] :
        tok \in EnvValues("token"), envEmail \in EnvValues("dev@example.com"),
        cfgEmail \in {"", "dev@example.com", "throw"},
        owner \in EnvValues("owner"), repo \in EnvValues("repo"),
        bbUrl \in EnvValues("https://api.bitbucket.org/2.0/repositories") }

Open == <<"o", "p", "e", "n">>
All == <<"a", "l", "l">>

\* detectPrId returned: fetchSonarIssues resumes at line 118
ReturnPrId(id) ==
    /\ detectedPrId' = id
    /\ pc' = "detected"
    /\ UNCHANGED <<exitCode, errorMessage, report>>

\* the detector is still waiting: nothing returned yet
StillDetecting(at) ==
    /\ pc' = at
    /\ UNCHANGED <<detectedPrId, exitCode, errorMessage, report>>

\* the same read taking the last element of the list
FirstPrOf_Last(body) ==
    CASE body.shape = "invalid" -> <<"throw">>
      [] body.shape = "nonumber" -> <<"throw">>
      [] body.shape = "other" -> Null
      [] body.shape = "list" ->
            IF Len(body.prs) > 0 THEN NumToString(body.prs[Len(body.prs)]) ELSE Null
      [] OTHER -> Null

\* the id of the first pull request of a 2xx body, when the body has one;
\* "throw" when reading the body raises; Null when the body has no match
\* (GitHub: Array.isArray(data) && data.length > 0, data[0].number.toString();
\*  Bitbucket: data.values && data.values.length > 0, data.values[0].id.toString())
FirstPrOf(body) ==
    CASE body.shape = "invalid" -> <<"throw">>
      [] body.shape = "nonumber" -> <<"throw">>
      [] body.shape = "other" -> Null
      [] body.shape = "list" ->
            IF Len(body.prs) > 0 THEN NumToString(body.prs[1]) ELSE Null
      [] OTHER -> Null

Threw == <<"throw">>

\* the catch block of both detectors (lines 183-187, 249-253): warn, null
DetectorCaught_Rethrows ==
    /\ Fail("detect")
    /\ UNCHANGED detectedPrId

DetectorCaught_TriesHeuristic ==
    ReturnPrId(IF Truthy(extractPrNumberFromBranch(currentBranch))
               THEN extractPrNumberFromBranch(currentBranch) ELSE Null)

DetectorCaught == ReturnPrId(Null)

\* the tail of both detectors: the branch-name heuristic, then null
HeuristicOrNull(branch) ==
    IF Truthy(extractPrNumberFromBranch(branch))
    THEN extractPrNumberFromBranch(branch) ELSE Null

\* !this.gitToken || !this.githubOwner || !this.githubRepo
GitHubConfigMissing_NoRepoCheck(e) == e.gitToken = "" \/ e.githubOwner = ""

GitHubConfigMissing(e) == e.gitToken = "" \/ e.githubOwner = "" \/ e.githubRepo = ""

\* !this.gitEmail || !this.gitToken || !this.bitbucketBaseUrl
BitbucketConfigMissing(e) ==
    e.gitEmail = "" \/ e.gitToken = "" \/ e.bitbucketBaseUrl = ""

\* response.ok, then the body read: "throw" when json() or the read of the
\* first id raises, the id when the list has a first element, else Null
MatchOf_Never(r) == Null

MatchOf(r) == IF r.kind = "ok" THEN FirstPrOf(r.body) ELSE Null

\* detectGitHubPrId up to its first await (lines 62-71 of index.ts, 122-138)
DetectGitHubPrId ==
    /\ pc = "dispatch"
    /\ ~Truthy(sonarPrLink)
    /\ config.gitProvider = "github"
    /\ \E e \in Extractors :
          /\ extractor' = e
          /\ IF GitHubConfigMissing(e)
             THEN /\ ReturnPrId(Null)
                  /\ net' = net
             ELSE /\ net' = Append(net, Request("github",
                                   buildGitHubPrApiUrl(currentBranch, Open)))
                  /\ StillDetecting("awaitOpen")
    /\ UNCHANGED <<fnArg, fnResult, config, branchName, sonarPrLink, currentBranch, issues,
                   usedSource, stage, issuesFile>>

\* lines 140-162: the state=open response
GitHubOpenResponse ==
    /\ pc = "awaitOpen"
    /\ \E r \in ProviderResponses :
          LET received == Append(net, Response("github", r))
          IN  IF r.kind = "throw"
              THEN /\ net' = received
                   /\ DetectorCaught
              ELSE IF MatchOf(r) = Threw
              THEN /\ net' = received
                   /\ DetectorCaught
              ELSE IF MatchOf(r) # Null
              THEN /\ net' = received
                   /\ ReturnPrId(MatchOf(r))
              ELSE /\ net' = Append(received, Request("github",
                                    buildGitHubPrApiUrl(currentBranch, All)))
                   /\ StillDetecting("awaitAll")
    /\ UNCHANGED <<fnArg, fnResult, config, branchName, sonarPrLink, currentBranch, extractor,
                   issues, usedSource, stage, issuesFile>>

\* lines 164-187: the state=all response, then the heuristic
GitHubAllResponse ==
    /\ pc = "awaitAll"
    /\ \E r \in ProviderResponses :
          /\ net' = Append(net, Response("github", r))
          /\ IF r.kind = "throw"
             THEN DetectorCaught
             ELSE IF MatchOf(r) = Threw
             THEN DetectorCaught
             ELSE IF MatchOf(r) # Null
             THEN ReturnPrId(MatchOf(r))
             ELSE ReturnPrId(HeuristicOrNull(currentBranch))
    /\ UNCHANGED <<fnArg, fnResult, config, branchName, sonarPrLink, currentBranch, extractor,
                   issues, usedSource, stage, issuesFile>>

\* detectBitbucketPrId up to its await (lines 72-74 of index.ts, 197-228)
DetectBitbucketPrId ==
    /\ pc = "dispatch"
    /\ ~Truthy(sonarPrLink)
    /\ config.gitProvider = "bitbucket"
    /\ \E e \in Extractors :
          /\ extractor' = e
          /\ IF BitbucketConfigMissing(e)
             THEN /\ ReturnPrId(Null)
                  /\ net' = net
             ELSE /\ net' = Append(net, Request("bitbucket",
                                   buildBitbucketPrApiUrl(currentBranch)))
                  /\ StillDetecting("awaitBitbucket")
    /\ UNCHANGED <<fnArg, fnResult, config, branchName, sonarPrLink, currentBranch, issues,
                   usedSource, stage, issuesFile>>

\* lines 230-253: the Bitbucket response, then the heuristic
BitbucketResponse ==
    /\ pc = "awaitBitbucket"
    /\ \E r \in ProviderResponses :
          /\ net' = Append(net, Response("bitbucket", r))
          /\ IF r.kind = "throw"
             THEN DetectorCaught
             ELSE IF MatchOf(r) = Threw
             THEN DetectorCaught
             ELSE IF MatchOf(r) # Null
             THEN ReturnPrId(MatchOf(r))
             ELSE ReturnPrId(HeuristicOrNull(currentBranch))
    /\ UNCHANGED <<fnArg, fnResult, config, branchName, sonarPrLink, currentBranch, extractor,
                   issues, usedSource, stage, issuesFile>>

\* lines 118-127: fetch by the detected id, or by the current branch
FetchDetectedOrBranch ==
    /\ pc = "detected"
    /\ IF Truthy(detectedPrId)
       THEN SendSonar([branch |-> Null, pullRequest |-> detectedPrId], "prId")
       ELSE SendSonar([branch |-> currentBranch, pullRequest |-> Null], "branch")
    /\ UNCHANGED <<fnArg, fnResult, config, branchName, sonarPrLink, currentBranch, extractor,
                   detectedPrId, issues, usedSource, issuesFile, exitCode,
                   errorMessage, report>>

\* lines 140-170: write issues.json and report
Save(payload, source) ==
    /\ issues' = payload
    /\ usedSource' = source
    /\ issuesFile' = [written |-> TRUE, payload |-> payload]
    /\ pc' = "exit"
    /\ exitCode' = 0
    /\ errorMessage' = ""
    /\ report' = successReport(payload)

\* the usedSource assigned after the fetch call of a stage returned
SourceOf(st) ==
    CASE st = "link" -> SourceOfLink(sonarPrLink)
      [] st = "prId" -> SourceOfPrId(detectedPrId, currentBranch)
      [] st = "branch" -> currentBranch
      [] st = "develop" -> Develop

\* lines 126-130: the develop fallback is taken after the branch query only
ShouldFallback_AnyQuery(st, payload) == NoIssues(payload)

ShouldFallback(st, payload) == st = "branch" /\ NoIssues(payload)

\* the response to the request in flight, through handleSonarResponse, and
\* what fetchSonarIssues does with the outcome (lines 107-108, 121-122,
\* 126-136, then 140-175)
SonarResponse ==
    /\ pc = "awaitSonar"
    /\ \E r \in SonarResponses :
          LET received == Append(net, Response("sonar", r))
          IN  IF r.kind = "throw"
              THEN /\ net' = received
                   /\ Fail("network")
                   /\ UNCHANGED <<issues, usedSource, stage, issuesFile>>
              ELSE IF handleSonarResponse(r) # ""
              THEN /\ net' = received
                   /\ FailWith(handleSonarResponse(r), errorOf(r))
                   /\ UNCHANGED <<issues, usedSource, stage, issuesFile>>
              ELSE IF ShouldFallback(stage, r.payload)
              THEN /\ issues' = r.payload
                   /\ usedSource' = currentBranch
                   /\ net' = Append(received, Request("sonar",
                                    buildUrl(CommonParams,
                                             [branch |-> Develop, pullRequest |-> Null])))
                   /\ stage' = "develop"
                   /\ pc' = "awaitSonar"
                   /\ UNCHANGED <<issuesFile, exitCode, errorMessage, report>>
              ELSE /\ net' = received
                   /\ stage' = stage
                   /\ Save(r.payload, SourceOf(stage))
    /\ UNCHANGED <<fnArg, fnResult, config, branchName, sonarPrLink, currentBranch, extractor,
                   detectedPrId>>

Next ==
    \/ LoadConfiguration
    \/ GetCurrentBranch
    \/ FetchIssuesForPr
    \/ DetectGitHubPrId
    \/ GitHubOpenResponse
    \/ GitHubAllResponse
    \/ DetectBitbucketPrId
    \/ BitbucketResponse
    \/ FetchDetectedOrBranch
    \/ SonarResponse

Spec == Init /\ [][Next]_vars

\* ------------------------------------------------------------------------
\* Observations on a run
\* ------------------------------------------------------------------------
IsSonarRequest(m) == m.type = "request" /\ m.api = "sonar"

IsProviderRequest(m) == m.type = "request" /\ m.api \in {"github", "bitbucket"}

IsProviderResponse(m) == m.type = "response" /\ m.api \in {"github", "bitbucket"}

SonarRequests == SelectSeq(net, IsSonarRequest)

ProviderRequests == SelectSeq(net, IsProviderRequest)

ProviderResponses_Seen == SelectSeq(net, IsProviderResponse)

\* positions of net holding a Sonar response
SonarResponseAt == { i \in 1..Len(net) : net[i].type = "response" /\ net[i].api = "sonar" }

\* a Sonar response that came back as a payload: received, declared as
\* JSON, with a 2xx status and a body that parses
IsPayload(m) ==
    /\ m.response[1].kind = "http"
    /\ m.response[1].contentType \in {ApplicationJson, JsonUtf8}
    /\ m.response[1].status = 200
    /\ m.response[1].parses

\* the run queried a pull request: its first Sonar request carries pullRequest
PrQueried ==
    /\ Len(SonarRequests) >= 1
    /\ HasParam(SonarRequests[1].query, "pullRequest")

\* detectPrId has been called in this run (its extractor exists)
DetectionRan == extractor # NoExtractor

\* detectPrId has returned
DetectionReturned == DetectionRan /\ pc \in {"detected", "awaitSonar", "exit"}

IsDigitString(s) == Len(s) >= 1 /\ \A i \in 1..Len(s) : IsDigit(s[i])

\* ------------------------------------------------------------------------
\* C1: the develop fallback request is sent only when no PR link was given,
\* detection returned no id and the query for the current branch came back
\* with zero issues; a run that queried a pull request sends one Sonar
\* request only, whatever that query returned.
\* ------------------------------------------------------------------------
C1_FallbackOnlyOnBranchPath ==
    /\ Len(SonarRequests) >= 2 =>
          /\ ~Truthy(sonarPrLink)
          /\ ~Truthy(detectedPrId)
          /\ \E i \in SonarResponseAt :
                /\ IsPayload(net[i])
                /\ NoIssues(net[i].response[1].payload)
                /\ \A j \in 1..(i - 1) :
                      IsSonarRequest(net[j]) =>
                          /\ ~HasParam(net[j].query, "pullRequest")
                          /\ currentBranch # <<>> => net[j].query["branch"] = currentBranch
    /\ (Truthy(sonarPrLink) \/ Truthy(detectedPrId) \/ PrQueried) =>
          Len(SonarRequests) <= 1

\* a pull request was queried, it had zero issues, and the run ended there
C1_Witness ==
    /\ pc = "exit" /\ exitCode = 0
    /\ PrQueried
    /\ NoIssues(issues)
    /\ Len(SonarRequests) = 1

\* ------------------------------------------------------------------------
\* C2: a run sends at most two Sonar requests; when the query for the
\* current branch came back with zero issues the next and last request is
\* the one for branch=develop; when that one succeeds the source description
\* is "develop".
\* ------------------------------------------------------------------------
C2_DevelopExactlyOnce ==
    /\ Len(SonarRequests) <= 2
    /\ \A i \in SonarResponseAt :
          ( /\ IsPayload(net[i])
            /\ NoIssues(net[i].response[1].payload)
            /\ ~PrQueried
            /\ Len(SelectSeq(SubSeq(net, 1, i), IsSonarRequest)) = 1 ) =>
              /\ Len(net) > i
              /\ IsSonarRequest(net[i + 1])
              /\ HasParam(net[i + 1].query, "branch")
              /\ net[i + 1].query["branch"] = Develop
              /\ ~HasParam(net[i + 1].query, "pullRequest")
              /\ Len(SonarRequests) = 2
    /\ (pc = "exit" /\ exitCode = 0 /\ Len(SonarRequests) = 2) =>
          usedSource = Develop

\* develop was queried after an empty branch result and was empty as well
C2_Witness ==
    /\ pc = "exit" /\ exitCode = 0
    /\ Len(SonarRequests) = 2
    /\ NoIssues(issues)
    /\ usedSource = Develop
    /\ currentBranch # Develop

\* ------------------------------------------------------------------------
\* C3: with a PR link, the Sonar request carries pullRequest=<key>, where the
\* key is the text between a 'pullRequest=' of the link and the next '&' or
\* the end, and no provider request is ever sent.
\* ------------------------------------------------------------------------
\* k is the non-empty, '&'-free text that follows the 'pullRequest=' at
\* position i of the link and ends at a '&' or at the end of the link
KeyAt(link, i, k) ==
    /\ HasAt(link, i, PullRequestEq)
    /\ Len(k) >= 1
    /\ i + Len(PullRequestEq) + Len(k) - 1 <= Len(link)
    /\ k = SubSeq(link, i + Len(PullRequestEq), i + Len(PullRequestEq) + Len(k) - 1)
    /\ \A n \in 1..Len(k) : k[n] # "&"
    /\ \/ i + Len(PullRequestEq) + Len(k) > Len(link)
       \/ link[i + Len(PullRequestEq) + Len(k)] = "&"

\* the request of a run with a link, when one was sent
LinkRequestSent == Truthy(sonarPrLink) /\ Len(SonarRequests) >= 1

\* the claim as stated: the key follows the FIRST 'pullRequest=' of the link
C3_KeyAfterFirstOccurrence ==
    LinkRequestSent =>
        \E i \in 1..Len(sonarPrLink) :
            /\ HasParam(SonarRequests[1].query, "pullRequest")
            /\ KeyAt(sonarPrLink, i, SonarRequests[1].query["pullRequest"])
            /\ \A j \in 1..(i - 1) : ~HasAt(sonarPrLink, j, PullRequestEq)

\* C3 as amended: the key follows the first 'pullRequest=' that is followed
\* by a character other than '&'; the request carries it as pullRequest and
\* no provider request is sent in a run with a link.
C3_KeyOfLinkNoProviderRequest ==
    /\ Truthy(sonarPrLink) => Len(ProviderRequests) = 0
    /\ LinkRequestSent =>
          \E i \in 1..Len(sonarPrLink) :
              /\ HasParam(SonarRequests[1].query, "pullRequest")
              /\ KeyAt(sonarPrLink, i, SonarRequests[1].query["pullRequest"])
              /\ \A j \in 1..(i - 1) :
                    HasAt(sonarPrLink, j, PullRequestEq) =>
                        sonarPrLink[j + Len(PullRequestEq)] = "&"

\* the link of the claim was fetched with key AB-12
C3_Witness ==
    /\ pc = "exit" /\ exitCode = 0
    /\ sonarPrLink = ExampleLink
    /\ SonarRequests[1].query["pullRequest"] = <<"A", "B", "-", "1", "2">>
    /\ Len(ProviderRequests) = 0

\* ------------------------------------------------------------------------
\* C4: a link in which no 'pullRequest=' is followed by a key ends the run
\* with status 1 and the link error, and nothing is ever sent: the step that
\* handles such a link goes straight to the exit.
\* ------------------------------------------------------------------------
NoKeyInLink(link) ==
    \A i \in 1..Len(link) :
        HasAt(link, i, PullRequestEq) =>
            \/ i + Len(PullRequestEq) > Len(link)
            \/ link[i + Len(PullRequestEq)] = "&"

MalformedLink == Truthy(sonarPrLink) /\ NoKeyInLink(sonarPrLink)

C4_MalformedLinkFailsBeforeAnyRequest ==
    /\ [](MalformedLink => (net = <<>> /\ (pc = "exit" => exitCode = 1)))
    /\ [][(MalformedLink /\ pc = "dispatch") =>
            (pc' = "exit" /\ exitCode' = 1 /\ errorMessage' = "link" /\ net' = <<>>)]_vars

\* a link without any key was rejected at the link step
C4_Witness ==
    /\ MalformedLink
    /\ pc = "exit" /\ errorMessage = "link" /\ exitCode = 1
    /\ \E i \in 1..Len(sonarPrLink) : HasAt(sonarPrLink, i, PullRequestEq)

\* ------------------------------------------------------------------------
\* C5: a Sonar request that fails (transport, content type, status, body)
\* is the last thing of the run: the command exits with status 1, no
\* request follows it and issues.json is not written, also when the failing
\* request is the develop query after an empty result for the branch.
\* ------------------------------------------------------------------------
C5_FetchFailureIsFatal ==
    \A i \in SonarResponseAt :
        ~IsPayload(net[i]) =>
            /\ i = Len(net)
            /\ pc = "exit"
            /\ exitCode = 1
            /\ ~issuesFile.written

\* the branch query came back empty and the develop query failed
C5_Witness ==
    /\ pc = "exit" /\ exitCode = 1
    /\ Len(SonarRequests) = 2
    /\ NoIssues(issues)
    /\ ~issuesFile.written
    /\ ~IsPayload(net[Len(net)])

\* ------------------------------------------------------------------------
\* Observations on PR detection
\* ------------------------------------------------------------------------
\* the provider responses of the run that satisfy a test
SeenResponse(Test(_)) ==
    \E i \in 1..Len(net) : IsProviderResponse(net[i]) /\ Test(net[i].response[1])

IsThrow(r) == r.kind = "throw"

IsNon2xx(r) == r.kind = "status"

\* a 2xx answer whose body is a non-empty list of pull requests
IsPrList(r) == r.kind = "ok" /\ r.body.shape = "list" /\ Len(r.body.prs) > 0

\* a 2xx answer that completes without a match
IsNoMatch(r) ==
    \/ r.kind = "status"
    \/ r.kind = "ok" /\ r.body.shape = "other"
    \/ r.kind = "ok" /\ r.body.shape = "list" /\ Len(r.body.prs) = 0

\* the branch name holds 'pr/' or 'pull/' directly followed by a digit, or
\* 'feat/', 'feature/', 'fix/' or 'bugfix/' with a digit somewhere after it
BranchHasPrNumber(b) ==
    \E i \in 1..Len(b) :
        \/ \E p \in PrPrefixes :
              /\ HasAtI(b, i, p)
              /\ i + Len(p) <= Len(b)
              /\ IsDigit(b[i + Len(p)])
        \/ \E p \in FeatPrefixes :
              /\ HasAtI(b, i, p)
              /\ \E k \in (i + Len(p))..Len(b) : IsDigit(b[k])

\* the first Sonar request is the one of the branch path
BranchPathRequest ==
    /\ Len(SonarRequests) >= 1
    /\ ~HasParam(SonarRequests[1].query, "pullRequest")
    /\ IF currentBranch = <<>>
       THEN ~HasParam(SonarRequests[1].query, "branch")
       ELSE /\ HasParam(SonarRequests[1].query, "branch")
            /\ SonarRequests[1].query["branch"] = currentBranch

\* the credentials or coordinates of the configured provider are absent
CredentialsAbsent ==
    \/ /\ config.gitProvider = "github"
       /\ "" \in {extractor.gitToken, extractor.githubOwner, extractor.githubRepo}
    \/ /\ config.gitProvider = "bitbucket"
       /\ "" \in {extractor.gitToken, extractor.gitEmail, extractor.bitbucketBaseUrl}

\* the decimal text of the pull-request numbers of the model
IdOf(n) == IF n = 7 THEN <<"7">> ELSE <<"4", "2">>

\* ------------------------------------------------------------------------
\* C6: whatever the provider requests come back with, detection returns an
\* id (a digit string) or null and the run goes on to the Sonar fetch: a run
\* in which detection was called never ends without a Sonar request.
\* ------------------------------------------------------------------------
C6_DetectionNeverFailsTheRun ==
    /\ DetectionReturned => (detectedPrId = Null \/ IsDigitString(detectedPrId))
    /\ (DetectionRan /\ pc = "exit") => Len(SonarRequests) >= 1
    /\ DetectionRan => errorMessage \in {"", "network", "contentType", "http", "json"}

\* a provider request threw, another body was unreadable, and the run
\* completed
C6_Witness ==
    /\ pc = "exit" /\ exitCode = 0
    /\ SeenResponse(IsThrow)
    /\ SeenResponse(IsNon2xx)
    /\ Len(SonarRequests) >= 1

C8_NoCredentialsNoDetection ==
    (DetectionRan /\ CredentialsAbsent) =>
        /\ Len(ProviderRequests) = 0
        /\ detectedPrId = Null
        /\ pc \in {"detected", "awaitSonar", "exit"}
        /\ pc = "exit" => BranchPathRequest

\* only the repository name is missing, the branch name holds a PR number,
\* and the branch was queried
C8_Witness ==
    /\ pc = "exit" /\ exitCode = 0
    /\ config.gitProvider = "github"
    /\ extractor.gitToken # "" /\ extractor.githubOwner # "" /\ extractor.githubRepo = ""
    /\ BranchHasPrNumber(currentBranch)
    /\ BranchPathRequest

\* ------------------------------------------------------------------------
\* C9: GitHub detection sends the state=open query first and the state=all
\* query only right after the open query completed without a match, never
\* after a match; Bitbucket detection sends one request, never a second.
\* ------------------------------------------------------------------------
C9_OpenThenAllOnce ==
    /\ config.gitProvider = "github" =>
          /\ Len(ProviderRequests) <= 2
          /\ Len(ProviderRequests) >= 1 => ProviderRequests[1].query.state = Open
          /\ Len(ProviderRequests) = 2 => ProviderRequests[2].query.state = All
          /\ \A i \in 1..Len(net) :
                (IsProviderRequest(net[i]) /\ net[i].query.state = All) =>
                    /\ i >= 3
                    /\ IsProviderRequest(net[i - 2])
                    /\ net[i - 2].query.state = Open
                    /\ IsProviderResponse(net[i - 1])
                    /\ IsNoMatch(net[i - 1].response[1])
    /\ config.gitProvider = "bitbucket" =>
          /\ Len(ProviderRequests) <= 1
          /\ (DetectionReturned /\ ~CredentialsAbsent) => Len(ProviderRequests) = 1

\* no open pull request, and the state=all query found one
C9_Witness ==
    /\ pc = "exit"
    /\ config.gitProvider = "github"
    /\ Len(ProviderRequests) = 2
    /\ Truthy(detectedPrId)
    /\ SeenResponse(IsPrList)

\* ------------------------------------------------------------------------
\* C10: when a provider response carried a non-empty list of pull requests,
\* detection returned the id of the first element of the first such list,
\* also when the branch name holds a PR number of its own.
\* ------------------------------------------------------------------------
C10_FirstElementOfApiListWins ==
    DetectionReturned =>
        \A i \in 1..Len(net) :
            ( /\ IsProviderResponse(net[i])
              /\ IsPrList(net[i].response[1])
              /\ \A j \in 1..(i - 1) :
                    IsProviderResponse(net[j]) => ~IsPrList(net[j].response[1]) ) =>
                detectedPrId = IdOf(net[i].response[1].body.prs[1])

\* the branch name says 7, the provider lists 42 before 7, and 42 is used
C10_Witness ==
    /\ pc = "exit"
    /\ BranchHasPrNumber(currentBranch)
    /\ detectedPrId = <<"4", "2">>
    /\ \E i \in 1..Len(net) :
          /\ IsProviderResponse(net[i])
          /\ IsPrList(net[i].response[1])
          /\ net[i].response[1].body.prs = <<42, 7>>

\* ------------------------------------------------------------------------
\* Observations on the responses of Sonar
\* ------------------------------------------------------------------------
\* the declared type is absent or does not contain application/json
NotJsonTyped(r) ==
    \/ r.contentType = Null
    \/ ~\E i \in 1..Len(r.contentType) : HasAt(r.contentType, i, ApplicationJson)

\* the first n characters of a body of len characters: how many there are
FirstChars(len, n) == IF len <= n THEN len ELSE n

\* the run took neither PR strategy
PlainBranchPath == ~Truthy(sonarPrLink) /\ ~Truthy(detectedPrId) /\ ~PrQueried

\* position i of net holds the first Sonar response of the run
FirstSonarResponse(i) ==
    i \in SonarResponseAt /\ \A j \in SonarResponseAt : i <= j

\* ------------------------------------------------------------------------
\* C15: a Sonar response whose declared type is absent or does not contain
\* application/json is rejected as an unexpected content type whatever its
\* status (a 200 HTML page too, and before the status is looked at): the run
\* ends there with status 1, the body is not taken as a payload, and the
\* diagnostic carries the declared type, the status and at most the first
\* 500 characters of the body.
\* ------------------------------------------------------------------------
C15_NonJsonTypeRejected ==
    \A i \in SonarResponseAt :
        LET r == net[i].response[1]
        IN  (r.kind = "http" /\ NotJsonTyped(r)) =>
                /\ i = Len(net)
                /\ pc = "exit" /\ exitCode = 1
                /\ errorMessage = "contentType"
                /\ ~issuesFile.written
                /\ (r.payload.hasIssues => issues # r.payload)
                /\ report.kind = "contentType"
                /\ report.contentType = r.contentType
                /\ report.status = r.status
                /\ report.bodyChars = FirstChars(r.bodyLen, 500)

\* a 200 HTML page of 600 characters was rejected, with a preview of 500
C15_Witness ==
    /\ pc = "exit" /\ exitCode = 1
    /\ Len(net) >= 1
    /\ net[Len(net)].type = "response" /\ net[Len(net)].api = "sonar"
    /\ net[Len(net)].response[1].contentType = TextHtml
    /\ net[Len(net)].response[1].status = 200
    /\ net[Len(net)].response[1].bodyLen = 600
    /\ report.kind = "contentType"
    /\ report.status = 200
    /\ report.bodyChars = 500

\* ------------------------------------------------------------------------
\* C16: a Sonar response declared as JSON whose status is outside the
\* success range fails with an HTTP error that carries the status and at
\* most the first 200 characters of the body; no payload is returned for it
\* and nothing follows it, the develop fallback included.
\* ------------------------------------------------------------------------
C16_JsonErrorStatusFails ==
    \A i \in SonarResponseAt :
        LET r == net[i].response[1]
        IN  (r.kind = "http" /\ ~NotJsonTyped(r) /\ (r.status < 200 \/ r.status > 299)) =>
                /\ i = Len(net)
                /\ pc = "exit" /\ exitCode = 1
                /\ errorMessage = "http"
                /\ report.kind = "http"
                /\ report.status = r.status
                /\ report.bodyChars = FirstChars(r.bodyLen, 200)
                /\ ~issuesFile.written
                /\ report.issueCount = 0
                /\ (FirstSonarResponse(i) => Len(SonarRequests) = 1)

\* the query for the branch came back as a JSON error document with status
\* 500: the run ended without a develop query
C16_Witness ==
    /\ pc = "exit" /\ exitCode = 1
    /\ PlainBranchPath
    /\ Len(SonarRequests) = 1
    /\ net[Len(net)].type = "response" /\ net[Len(net)].api = "sonar"
    /\ net[Len(net)].response[1].status = 500
    /\ net[Len(net)].response[1].parses
    /\ net[Len(net)].response[1].bodyLen = 350
    /\ report.kind = "http"
    /\ report.bodyChars = 200

\* ------------------------------------------------------------------------
\* C17: a successful JSON response without an issues field counts as zero
\* issues and is no error: as the answer to the query for the current
\* branch it is followed by the develop query, as an empty list is, and as
\* the final result it is saved and reported as 0 issues.
\* ------------------------------------------------------------------------
C17_MissingIssuesFieldIsZero ==
    /\ \A i \in SonarResponseAt :
          LET r == net[i].response[1]
          IN  ( /\ IsPayload(net[i])
                /\ (~r.payload.hasIssues \/ r.payload.issues = <<>>)
                /\ PlainBranchPath
                /\ FirstSonarResponse(i) ) =>
                  /\ i < Len(net)
                  /\ IsSonarRequest(net[i + 1])
                  /\ HasParam(net[i + 1].query, "branch")
                  /\ net[i + 1].query["branch"] = Develop
    /\ ( /\ Len(net) >= 1
         /\ Len(net) \in SonarResponseAt
         /\ IsPayload(net[Len(net)])
         /\ ~net[Len(net)].response[1].payload.hasIssues ) =>
            /\ pc = "exit" /\ exitCode = 0
            /\ errorMessage = ""
            /\ issuesFile.written
            /\ issuesFile.payload = net[Len(net)].response[1].payload
            /\ report.kind = "success"
            /\ report.issueCount = 0

\* the branch query answered without an issues field, develop was queried
\* and answered without one too: saved, 0 issues
C17_Witness ==
    /\ pc = "exit" /\ exitCode = 0
    /\ Len(SonarRequests) = 2
    /\ \A i \in SonarResponseAt : ~net[i].response[1].payload.hasIssues
    /\ issuesFile.written
    /\ ~issuesFile.payload.hasIssues
    /\ report.kind = "success"
    /\ report.issueCount = 0

\* ------------------------------------------------------------------------
\* Observations on the recorded source
\* ------------------------------------------------------------------------
\* the run finished with a result
Done == pc = "exit" /\ exitCode = 0

\* the path that produced the result: the explicit link, the detected id,
\* the given branch, or the develop fallback
PathTaken ==
    IF Truthy(sonarPrLink) THEN "link"
    ELSE IF Truthy(detectedPrId) THEN "prId"
    ELSE IF Len(SonarRequests) = 2 THEN "develop"
    ELSE "branch"

\* ------------------------------------------------------------------------
\* C22: the recorded source description tells which of the four paths
\* produced the result: two runs that finished on different paths never
\* record the same description. A run of the develop fallback always records
\* "develop", so no run that finished on another path may record it, and
\* the descriptions of the two PR paths belong to their paths only.
\* ------------------------------------------------------------------------
C22_SourceIdentifiesPath ==
    Done =>
        /\ usedSource = <<"d", "e", "v", "e", "l", "o", "p">> => PathTaken = "develop"
        /\ HasAt(usedSource, 1, <<"P", "R", ":", " ">>) => PathTaken = "link"
        /\ HasAt(usedSource, 1, <<"P", "R", " ", "#">>) => PathTaken = "prId"
        /\ PathTaken = "develop" => usedSource = <<"d", "e", "v", "e", "l", "o", "p">>

\* ------------------------------------------------------------------------
\* C26: every Sonar request of the fetch command carries exactly one target
\* parameter, branch=<name> or pullRequest=<key-or-id>, whatever branch name
\* the command obtained (an argument, or the output of git, which is empty
\* on a detached HEAD).
\* ------------------------------------------------------------------------
C26_ExactlyOneTarget ==
    \A i \in 1..Len(net) :
        IsSonarRequest(net[i]) =>
            ("branch" \in DOMAIN net[i].query) # ("pullRequest" \in DOMAIN net[i].query)

\* ------------------------------------------------------------------------
\* C28: for the same branch and configuration, detection returns the same
\* result whether the provider queries fail (thrown, or non-2xx) or answer
\* with an empty list. With empty lists only, detection returns the id held
\* by the branch name if there is one, else null; so does it then whenever
\* every provider response was a failure or an empty list.
\* ------------------------------------------------------------------------
C28_FailureEqualsNotFound ==
    ( /\ DetectionReturned
      /\ Len(ProviderRequests) >= 1
      /\ \A i \in 1..Len(net) :
            IsProviderResponse(net[i]) =>
                \/ net[i].response[1].kind \in {"throw", "status"}
                \/ /\ net[i].response[1].kind = "ok"
                   /\ net[i].response[1].body.shape = "list"
                   /\ net[i].response[1].body.prs = <<>> ) =>
        (detectedPrId # Null <=> BranchHasPrNumber(currentBranch))

\* ------------------------------------------------------------------------
\* Observations on the progress of a run
\* ------------------------------------------------------------------------
\* the place of a state in the decision procedure
StepOf(at, st) ==
    CASE at = "loadConfiguration" -> 1
      [] at = "getBranch" -> 2
      [] at = "dispatch" -> 3
      [] at = "awaitOpen" -> 4
      [] at = "awaitBitbucket" -> 4
      [] at = "awaitAll" -> 5
      [] at = "detected" -> 6
      [] at = "awaitSonar" /\ st # "develop" -> 7
      [] at = "awaitSonar" /\ st = "develop" -> 8
      [] at = "exit" -> 9

\* ------------------------------------------------------------------------
\* C29: every fetch invocation terminates. Every step of a run moves to a
\* later place of the decision procedure and never back, so that no run has
\* more than eight steps and a run whose network calls return or fail
\* ends; where the run chooses between the fetch by link and the two
\* detectors, one of them applies; at most two provider requests and two
\* Sonar requests are sent, and the run ends either with the result written
\* or with a fatal error.
\* ------------------------------------------------------------------------
C29_RunTerminates ==
    /\ [](StepOf(pc, stage) \in 1..9)
    /\ [][StepOf(pc', stage') > StepOf(pc, stage)]_vars
    /\ [](pc = "dispatch" =>
             Truthy(sonarPrLink) \/ config.gitProvider \in {"github", "bitbucket"})
    /\ [](Len(ProviderRequests) <= 2 /\ Len(SonarRequests) <= 2)
    /\ [](pc = "exit" => \/ exitCode = 0 /\ issuesFile.written
                         \/ exitCode = 1 /\ ~issuesFile.written)

\* the longest run: two provider requests, the branch query, the develop
\* query, the result written
C29_Witness ==
    /\ pc = "exit" /\ exitCode = 0
    /\ Len(ProviderRequests) = 2
    /\ Len(SonarRequests) = 2
    /\ issuesFile.written

\* ------------------------------------------------------------------------
\* C30: a configuration that is missing, or whose gitProvider is absent or
\* neither github nor bitbucket, is rejected: the run goes from reading the
\* configuration straight to a non-zero exit, the git branch is never read,
\* no request is ever sent and nothing is written, also when a valid
\* pull-request link was given.
\* ------------------------------------------------------------------------
C30_BadConfigurationRejected ==
    (~config.exists \/ config.gitProvider \notin {"github", "bitbucket"}) =>
        /\ pc \in {"loadConfiguration", "exit"}
        /\ pc = "exit" => exitCode = 1 /\ errorMessage = "config"
        /\ currentBranch = Null
        /\ extractor = NoExtractor
        /\ net = <<>>
        /\ ~issuesFile.written

\* another provider and a valid link: the run has ended with the error
C30_Witness ==
    /\ config.exists
    /\ config.gitProvider = "gitlab"
    /\ sonarPrLink = ExampleLink
    /\ pc = "exit"
    /\ exitCode = 1

\* ------------------------------------------------------------------------
\* The functions of the URL builder and of the detectors, studied alone:
\* the variables of the run stay idle, fnArg is the argument, fnResult the
\* result
\* ------------------------------------------------------------------------
runVars == <<config, branchName, sonarPrLink, currentBranch, extractor, net,
             detectedPrId, issues, usedSource, stage, issuesFile, exitCode,
             errorMessage, report>>

RunIdle ==
    /\ config = [exists |-> FALSE, gitProvider |-> ""]
    /\ branchName = Null
    /\ sonarPrLink = Null
    /\ currentBranch = Null
    /\ extractor = NoExtractor
    /\ net = <<>>
    /\ detectedPrId = Null
    /\ issues = NoPayload
    /\ usedSource = Null
    /\ stage = ""
    /\ issuesFile = NotWritten
    /\ exitCode = -1
    /\ errorMessage = ""
    /\ report = NoReport

\* --- normalizeUrl ---
Host ==
    <<"h", "t", "t", "p", "s", ":", "/", "/", "s", "o", "n", "a", "r", ".",
      "i", "o">>

QueryString == <<"?", "i", "d", "=", "p">>

UrlFragments == { ProjectIssues, ApiIssues, <<"/", "s", "e", "a", "r", "c", "h">>,
                  <<"/">>, QueryString }

\* the values of sonarBaseUrl in the configuration (empty: not configured)
RawUrls == { <<>> } \cup { Host \o t : t \in StringsOf(UrlFragments, MaxUrlFrags) }

InitNormalize ==
    /\ RunIdle
    /\ pc = "raw"
    /\ fnArg \in RawUrls
    /\ fnResult = <<>>

\* the endpoint of a request is computed from the configured value
CreateUrlBuilder ==
    /\ pc = "raw"
    /\ fnResult' = <<createUrlBuilder(fnArg, DefaultSonarBaseUrl)>>
    /\ pc' = "once"
    /\ UNCHANGED fnArg
    /\ UNCHANGED runVars

\* the computed endpoint is configured as the base URL and normalized again
NormalizeAgain ==
    /\ pc = "once"
    /\ fnResult' = Append(fnResult, createUrlBuilder(fnResult[1], DefaultSonarBaseUrl))
    /\ pc' = "twice"
    /\ UNCHANGED fnArg
    /\ UNCHANGED runVars

NextNormalize ==
    \/ CreateUrlBuilder
    \/ NormalizeAgain

SpecNormalize == InitNormalize /\ [][NextNormalize]_vars

\* C11: normalizeUrl is idempotent: normalizing the normalized endpoint
\* again gives the same endpoint, for every configured value
C11_NormalizeIdempotent ==
    pc = "twice" => fnResult[2] = fnResult[1]

\* a web-UI link with a query string was rewritten, and rewritten once only
C11_Witness ==
    /\ pc = "twice"
    /\ fnArg = Host \o ProjectIssues \o QueryString
    /\ fnResult[1] = Host \o ApiIssuesSearch
    /\ fnResult[2] = fnResult[1]

\* the forms a person writes the endpoint in
HumanForms ==
    { Host \o ProjectIssues \o t : t \in { <<>>, <<"/">>, QueryString } }
    \cup { Host \o ApiIssues, Host, Host \o <<"/">>, Host \o ApiIssuesSearch }

\* C19: every human-authored form of the endpoint (web-UI link with optional
\* trailing text, API root, bare host, search route) is normalized to an
\* endpoint that ends with /api/issues/search and has no /project/issues
C19_EveryFormCanonical ==
    (pc # "raw" /\ fnArg \in HumanForms) =>
        /\ EndsWith(fnResult[1], ApiIssuesSearch)
        /\ ~Includes(fnResult[1], ProjectIssues)

\* --- SonarUrlBuilder: constructor and buildUrl ---
Main == <<"m", "a", "i", "n">>
FortyTwo == <<"4", "2">>
Acme == <<"a", "c", "m", "e">>
Keys == <<"a", "c", "m", "e", "_", "a", "p", "p">>
Repo == <<"a", "p", "p">>

\* the values of UrlBuilderConfig (Null: the key is absent)
UrlBuilderConfigs ==
    [ publicSonar : BOOLEAN,
      sonarComponentKeys : {Null, Keys},
      sonarOrganization : {Null, Acme},
      sonarProjectKey : {Null, Keys},
      repoName : {Null, <<>>, Repo},
      gitOrganization : {Null, Acme} ]

\* the values of UrlBuildOptions: both keys are optional
UrlBuildOptions ==
    [ branch : {Null, Main, <<"f", "e", "a", "t", "/", "7">>},
      pullRequest : {Null, FortyTwo, <<"A", "B", "-", "1", "2">>} ]

NoUrl == [setup |-> Null, url |-> Null, request |-> Null]

Token == <<"t", "0", "k">>

\* getSonarAuthHeaders: no header without a token, else Basic auth with the
\* token as user name and an empty password (the base64 text is kept as
\* the credentials it encodes)
NoHeaders == [Authorization |-> Null]

getSonarAuthHeaders(token) ==
    IF ~Truthy(token) THEN NoHeaders
    ELSE [Authorization |-> <<"B", "a", "s", "i", "c", " ">> \o token \o <<":">>]

InitBuildUrl ==
    /\ RunIdle
    /\ pc = "new"
    /\ fnArg \in [config : UrlBuilderConfigs, options : UrlBuildOptions,
                  sonarToken : {Null, Token}]
    /\ fnResult = NoUrl

\* new SonarUrlBuilder(baseUrl, config)
Construct ==
    /\ pc = "new"
    /\ fnResult' = [setup |-> SonarUrlBuilder(fnArg.config), url |-> Null,
                    request |-> Null]
    /\ pc' = "constructed"
    /\ UNCHANGED fnArg
    /\ UNCHANGED runVars

\* urlBuilder.buildUrl(options)
BuildUrl ==
    /\ pc = "constructed"
    /\ fnResult' = [fnResult EXCEPT
                      !.url = UrlString(Host \o ApiIssuesSearch, fnResult.setup,
                                        fnArg.options)]
    /\ pc' = "built"
    /\ UNCHANGED fnArg
    /\ UNCHANGED runVars

\* fetchIssues, lines 328-335: the headers, then the request is sent
Fetch ==
    /\ pc = "built"
    /\ fnResult' = [fnResult EXCEPT
                      !.request =
                          [url |-> fnResult.url,
                           headers |-> IF fnArg.config.publicSonar THEN NoHeaders
                                       ELSE getSonarAuthHeaders(fnArg.sonarToken)]]
    /\ pc' = "sent"
    /\ UNCHANGED fnArg
    /\ UNCHANGED runVars

NextBuildUrl ==
    \/ Construct
    \/ BuildUrl
    \/ Fetch

SpecBuildUrl == InitBuildUrl /\ [][NextBuildUrl]_vars

\* the query string of a URL: what follows the first '?'
QueryOf(url) ==
    LET i == CHOOSE j \in 1..Len(url) :
                 url[j] = "?" /\ \A k \in 1..(j - 1) : url[k] # "?"
    IN  SubSeq(url, i + 1, Len(url))

\* the query string has a parameter of this name
UrlHasName(url, name) ==
    LET q == QueryOf(url)
        lit == NameChars[name] \o <<"=">>
    IN  \E i \in 1..Len(q) : HasAt(q, i, lit) /\ (i = 1 \/ q[i - 1] = "&")

\* the query string has exactly this pair, the value in its encoded form
UrlHasPair(url, name, encoded) ==
    LET q == QueryOf(url)
        lit == NameChars[name] \o <<"=">> \o encoded
    IN  \E i \in 1..Len(q) :
            /\ HasAt(q, i, lit)
            /\ (i = 1 \/ q[i - 1] = "&")
            /\ (i + Len(lit) > Len(q) \/ q[i + Len(lit)] = "&")

\* the modes, read off the configuration
PublicMultiTenant(c) ==
    c.publicSonar /\ c.sonarComponentKeys # Null /\ c.sonarOrganization # Null

C13_PublicBranchUrl ==
    ( /\ pc \in {"built", "sent"}
      /\ PublicMultiTenant(fnArg.config)
      /\ fnArg.options = [branch |-> Main, pullRequest |-> Null] ) =>
        /\ UrlHasPair(fnResult.url, "organization", fnArg.config.sonarOrganization)
        /\ UrlHasPair(fnResult.url, "componentKeys", fnArg.config.sonarComponentKeys)
        /\ UrlHasPair(fnResult.url, "branch", Main)
        /\ \/ UrlHasPair(fnResult.url, "issueStatuses",
                         <<"O", "P", "E", "N", "%", "2", "C",
                           "C", "O", "N", "F", "I", "R", "M", "E", "D">>)
           \/ UrlHasPair(fnResult.url, "issueStatuses",
                         <<"C", "O", "N", "F", "I", "R", "M", "E", "D", "%", "2", "C",
                           "O", "P", "E", "N">>)
        /\ ~UrlHasName(fnResult.url, "inNewCodePeriod")

C13_Witness ==
    /\ pc \in {"built", "sent"}
    /\ fnArg.config.publicSonar
    /\ fnArg.config.sonarOrganization = Acme
    /\ fnArg.config.sonarComponentKeys = Keys
    /\ fnArg.options = [branch |-> Main, pullRequest |-> Null]
    /\ fnResult.setup.isSonarCloud
    /\ UrlHasPair(fnResult.url, "organization", Acme)
    /\ UrlHasPair(fnResult.url, "branch", Main)

\* C14: in private self-hosted mode with target PullRequestId("42") the URL
\* has pullRequest=42 and inNewCodePeriod=true and no organization parameter,
\* also when the configuration names an organization
C14_PrivatePullRequestUrl ==
    ( /\ pc \in {"built", "sent"}
      /\ ~PublicMultiTenant(fnArg.config)
      /\ fnArg.options = [branch |-> Null, pullRequest |-> FortyTwo] ) =>
        /\ UrlHasPair(fnResult.url, "pullRequest", FortyTwo)
        /\ UrlHasPair(fnResult.url, "inNewCodePeriod", True)
        /\ ~UrlHasName(fnResult.url, "organization")

C14_Witness ==
    /\ pc \in {"built", "sent"}
    /\ ~fnArg.config.publicSonar
    /\ fnArg.config.sonarOrganization = Acme
    /\ fnArg.options = [branch |-> Null, pullRequest |-> FortyTwo]
    /\ ~fnResult.setup.isSonarCloud
    /\ UrlHasPair(fnResult.url, "pullRequest", FortyTwo)
    /\ UrlHasPair(fnResult.url, "inNewCodePeriod", True)

\* C20: every URL built in private self-hosted mode has a timeZone
\* parameter, for every target
C20_PrivateUrlHasTimeZone ==
    (pc \in {"built", "sent"} /\ ~PublicMultiTenant(fnArg.config)) =>
        UrlHasName(fnResult.url, "timeZone")

\* --- the branch-name heuristic ---
HeuristicFragments ==
    { <<"p", "r", "/">>, <<"P", "U", "L", "L", "/">>, <<"f", "e", "a", "t", "/">>,
      <<"b", "u", "g", "F", "i", "x", "/">>, <<"x">>, <<"7">> }

\* the branch names the heuristic is applied to
HeuristicBranches == StringsOf(HeuristicFragments, MaxHeuristicFrags)

InitHeuristic ==
    /\ RunIdle
    /\ pc = "noMatch"
    /\ fnArg \in HeuristicBranches
    /\ fnResult = <<>>

\* the last step of a detector whose API calls gave no match:
\* prNumberRegex.exec(branch), then `prNumber || null`, or null
ApplyHeuristic ==
    /\ pc = "noMatch"
    /\ fnResult' = IF Truthy(PrNumberRegexExec(fnArg))
                   THEN PrNumberRegexExec(fnArg) ELSE Null
    /\ pc' = "returned"
    /\ UNCHANGED fnArg
    /\ UNCHANGED runVars

NextHeuristic == ApplyHeuristic

SpecHeuristic == InitHeuristic /\ [][NextHeuristic]_vars

\* b has, ignoring case, 'pr/' or 'pull/' at position i with a digit right
\* after it
PrFormAt(b, i, p) ==
    /\ p \in { <<"p", "r", "/">>, <<"p", "u", "l", "l", "/">> }
    /\ HasAtI(b, i, p)
    /\ i + Len(p) <= Len(b)
    /\ IsDigit(b[i + Len(p)])

\* b has, ignoring case, 'feat/', 'feature/', 'fix/' or 'bugfix/' at
\* position i with a digit somewhere after it
FeatFormAt(b, i, p) ==
    /\ p \in { <<"f", "e", "a", "t", "/">>,
               <<"f", "e", "a", "t", "u", "r", "e", "/">>,
               <<"f", "i", "x", "/">>,
               <<"b", "u", "g", "f", "i", "x", "/">> }
    /\ HasAtI(b, i, p)
    /\ \E k \in (i + Len(p))..Len(b) : IsDigit(b[k])

FormAt(b, i, p) == PrFormAt(b, i, p) \/ FeatFormAt(b, i, p)

AllPrefixes == PrPrefixes \cup FeatPrefixes

\* b[k..m] is the first maximal run of digits of b at or after position from
FirstMaximalRun(b, from, k, m) ==
    /\ from <= k /\ k <= m /\ m <= Len(b)
    /\ \A j \in from..(k - 1) : ~IsDigit(b[j])
    /\ \A j \in k..m : IsDigit(b[j])
    /\ (m = Len(b) \/ ~IsDigit(b[m + 1]))

\* id is the first maximal digit run of the leftmost place where b has one
\* of the two forms
IdOfLeftmostForm(b, id) ==
    \E i \in 1..Len(b) : \E p \in AllPrefixes :
        /\ FormAt(b, i, p)
        /\ \A j \in 1..(i - 1) : \A q \in AllPrefixes : ~FormAt(b, j, q)
        /\ \E k, m \in 1..Len(b) :
              /\ FirstMaximalRun(b, i + Len(p), k, m)
              /\ id = SubSeq(b, k, m)

\* C18: the heuristic yields an id exactly when the branch name has,
\* ignoring case, 'pr/' or 'pull/' directly followed by a digit, or 'feat/',
\* 'feature/', 'fix/' or 'bugfix/' followed later by a digit; the id is the
\* non-empty digit string of the first maximal digit run of the leftmost
\* such place; for every other name the detector returns null.
C18_HeuristicCharacterised ==
    pc = "returned" =>
        IF \E i \in 1..Len(fnArg) : \E p \in AllPrefixes : FormAt(fnArg, i, p)
        THEN /\ fnResult # Null
             /\ Len(fnResult) >= 1
             /\ \A j \in 1..Len(fnResult) : fnResult[j] \in Digits
             /\ IdOfLeftmostForm(fnArg, fnResult)
        ELSE fnResult = Null

\* 'bugFix/' matched whatever its case and the digits after it were taken
\* as one id
C18_Witness ==
    /\ pc = "returned"
    /\ fnArg = <<"b", "u", "g", "F", "i", "x", "/", "7", "7">>
    /\ fnResult = <<"7", "7">>

\* the component of a configuration as the statement gives it: the project
\* key, else the repository name, after the organization and a '/' (in its
\* serialized form) when the configuration has one
ComponentKey(c) ==
    IF Truthy(c.sonarProjectKey) THEN c.sonarProjectKey ELSE c.repoName

PrefixedComponent(c) ==
    IF Truthy(c.gitOrganization)
    THEN c.gitOrganization \o <<"%", "2", "F">> \o ComponentKey(c)
    ELSE ComponentKey(c)

\* C21: every URL built in private self-hosted mode carries components=<v>,
\* v being the project key (the repository name without one), prefixed by
\* '<organization>/' when an organization is configured: a component
\* identifier is present in every private-mode query
C21_PrivateUrlHasComponents ==
    (pc \in {"built", "sent"} /\ ~PublicMultiTenant(fnArg.config)) =>
        /\ UrlHasName(fnResult.url, "components")
        /\ Truthy(ComponentKey(fnArg.config)) =>
              UrlHasPair(fnResult.url, "components", PrefixedComponent(fnArg.config))

\* a setting that the mode requires is missing: the public flag without
\* organization or component keys, or private mode without a component
MissingRequired(c) ==
    \/ c.publicSonar /\ (~Truthy(c.sonarOrganization) \/ ~Truthy(c.sonarComponentKeys))
    \/ ~PublicMultiTenant(c) /\ ~Truthy(ComponentKey(c))

\* C23: a configuration that lacks a setting its mode requires is a fatal
\* error before any network call: no HTTP request is sent for it
C23_MissingSettingsNoRequest ==
    MissingRequired(fnArg.config) => pc # "sent"

\* C27: every request whose URL is built in private self-hosted mode has an
\* Authorization header made from the Sonar token; only requests whose URL
\* is built in public multi-tenant mode go without
C27_PrivateRequestAuthorized ==
    pc = "sent" =>
        LET private == UrlHasName(fnResult.request.url, "inNewCodePeriod")
            auth == fnResult.request.headers.Authorization
        IN  /\ private => /\ auth # Null
                          /\ fnArg.sonarToken # Null
                          /\ \E i \in 1..Len(auth) : HasAt(auth, i, fnArg.sonarToken)
            /\ auth = Null => ~private

\* --- the severity summary (index.ts, lines 157-170) ---
\* issue.severity || "UNKNOWN" ("" stands for a missing or empty severity)
SeverityOf(severity) == IF severity = "" THEN "UNKNOWN" ELSE severity

\* severityCounts[severity] = (severityCounts[severity] || 0) + 1, the
\* entries kept in the order in which the keys were first set
CountOne(entries, severity) ==
    IF \E i \in 1..Len(entries) : entries[i][1] = severity
    THEN [i \in 1..Len(entries) |->
             IF entries[i][1] = severity
             THEN <<severity, entries[i][2] + 1>> ELSE entries[i]]
    ELSE Append(entries, <<severity, 1>>)

RECURSIVE severityCounts(_)
severityCounts(list) ==
    IF list = <<>> THEN <<>>
    ELSE CountOne(severityCounts(SubSeq(list, 1, Len(list) - 1)),
                  SeverityOf(list[Len(list)]))

\* Array.prototype.sort with ([, a], [, b]) => b - a: stable, by count,
\* largest first
InsertByCount(sorted, entry) ==
    LET before == { i \in 0..Len(sorted) :
                      \A j \in 1..i : sorted[j][2] >= entry[2] }
        at == CHOOSE i \in before : \A k \in before : k <= i
    IN  SubSeq(sorted, 1, at) \o <<entry>> \o SubSeq(sorted, at + 1, Len(sorted))

sortedEntries_Unsorted(entries) == entries

RECURSIVE sortedEntries(_)
sortedEntries(entries) ==
    IF entries = <<>> THEN <<>>
    ELSE InsertByCount(sortedEntries(SubSeq(entries, 1, Len(entries) - 1)),
                       entries[Len(entries)])

\* the summary printed for a payload, Null when none is printed
displaySummary(p) ==
    IF p.hasIssues /\ Len(p.issues) > 0
    THEN sortedEntries(severityCounts(p.issues))
    ELSE Null

SummarySeverities == {"MAJOR", "CRITICAL", ""}

\* the payloads whose summary is studied
SummaryPayloads ==
    {NoPayload}
    \cup { [hasIssues |-> TRUE, issues |-> l] :
             l \in UNION { [1..k -> SummarySeverities] : k \in 0..MaxSummaryIssues } }

InitSummary ==
    /\ RunIdle
    /\ pc = "saved"
    /\ fnArg \in SummaryPayloads
    /\ fnResult = <<>>

DisplaySummary ==
    /\ pc = "saved"
    /\ fnResult' = displaySummary(fnArg)
    /\ pc' = "summarised"
    /\ UNCHANGED fnArg
    /\ UNCHANGED runVars

NextSummary == DisplaySummary

SpecSummary == InitSummary /\ [][NextSummary]_vars

\* the number of issues of a list that are shown under a label
ShownUnder(list, label) ==
    Cardinality({ i \in 1..Len(list) :
                    (IF list[i] = "" THEN "UNKNOWN" ELSE list[i]) = label })

RECURSIVE SumOfCounts(_)
SumOfCounts(entries) ==
    IF entries = <<>> THEN 0 ELSE entries[1][2] + SumOfCounts(Tail(entries))

\* C24: the summary groups the issues by severity, a missing or empty
\* severity under "UNKNOWN"; the counts add up to the number of issues and
\* are listed largest first ([MAJOR, MAJOR, CRITICAL, none] gives MAJOR: 2,
\* CRITICAL: 1, UNKNOWN: 1); no summary is printed for zero issues
C24_SeveritySummary ==
    pc = "summarised" =>
        IF ~fnArg.hasIssues \/ fnArg.issues = <<>>
        THEN fnResult = Null
        ELSE /\ fnResult # Null
             /\ SumOfCounts(fnResult) = Len(fnArg.issues)
             /\ \A i \in 1..Len(fnResult) :
                   /\ fnResult[i][2] >= 1
                   /\ fnResult[i][2] = ShownUnder(fnArg.issues, fnResult[i][1])
                   /\ \A j \in 1..Len(fnResult) : fnResult[i][1] = fnResult[j][1] => i = j
                   /\ i < Len(fnResult) => fnResult[i][2] >= fnResult[i + 1][2]
             /\ fnArg.issues = <<"MAJOR", "MAJOR", "CRITICAL", "">> =>
                   fnResult = << <<"MAJOR", 2>>, <<"CRITICAL", 1>>, <<"UNKNOWN", 1>> >>

\* the example of the statement was summarised
C24_Witness ==
    /\ pc = "summarised"
    /\ fnArg.issues = <<"MAJOR", "MAJOR", "CRITICAL", "">>
    /\ fnResult = << <<"MAJOR", 2>>, <<"CRITICAL", 1>>, <<"UNKNOWN", 1>> >>

\* --- the scan command (runSonarScan) ---
\* .sonarflowrc.json as the scan command finds it: no file, a file that
\* cannot be read or parsed, or a parsed file whose publicSonar key is
\* absent, false or true
ScanConfigFiles == {"missing", "unreadable", "absent", "false", "true"}

\* lines 26-35: publicSonar is false unless the parsed file says otherwise
publicSonarOf(configFile) == configFile = "true"

\* SONAR_TOKEN: unset, set to the empty string, or set
ScanTokens == {Null, <<>>, Token}

TokenArgPrefix ==
    <<"-", "D", "s", "o", "n", "a", "r", ".", "t", "o", "k", "e", "n", "=">>

\* the arguments that do not depend on the token, project key and
\* organization at their defaults
FixedArgs ==
    <<        <<"-", "D", "s", "o", "n", "a", "r", ".", "p", "r", "o", "j", "e",
         "c", "t", "K", "e", "y", "=", "b", "i", "t", "r", "o", "c", "k",
         "t", "e", "a", "m", "_", "s", "o", "n", "a", "r", "-", "a", "u",
         "t", "o", "f", "i", "x", "e", "r">>,
              <<"-", "D", "s", "o", "n", "a", "r", ".", "o", "r", "g", "a", "n",
         "i", "z", "a", "t", "i", "o", "n", "=", "b", "i", "t", "r", "o",
         "c", "k", "t", "e", "a", "m">>,
              <<"-", "D", "s", "o", "n", "a", "r", ".", "s", "c", "a", "n", "n",
         "e", "r", ".", "d", "u", "m", "p", "T", "o", "F", "i", "l", "e",
         "=", ".", "s", "o", "n", "a", "r", "/", "s", "c", "a", "n", "n",
         "e", "r", "-", "r", "e", "p", "o", "r", "t", ".", "j", "s", "o",
         "n">> >>

\* line 43: the token is validated only when Sonar is private
tokenMissing_AnyMode(isPublic, sonarToken) == ~Truthy(sonarToken)

tokenMissing(isPublic, sonarToken) == ~isPublic /\ ~Truthy(sonarToken)

\* lines 72-79: the token argument is left out when Sonar is public
sonarArgs(isPublic, sonarToken) ==
    (IF isPublic THEN <<>> ELSE <<TokenArgPrefix \o Stringify(sonarToken)>>)
    \o FixedArgs

NoScan == [publicSonar |-> FALSE, args |-> <<>>, executed |-> FALSE, exitCode |-> -1]

InitScan ==
    /\ RunIdle
    /\ pc = "loadConfig"
    /\ fnArg \in [configFile : ScanConfigFiles, sonarToken : ScanTokens,
                  scannerInstalled : BOOLEAN, scanSucceeds : BOOLEAN]
    /\ fnResult = NoScan

\* lines 24-35
LoadScanConfig ==
    /\ pc = "loadConfig"
    /\ fnResult' = [fnResult EXCEPT !.publicSonar = publicSonarOf(fnArg.configFile)]
    /\ pc' = "validate"
    /\ UNCHANGED fnArg
    /\ UNCHANGED runVars

\* lines 38-51
ValidateToken ==
    /\ pc = "validate"
    /\ IF tokenMissing(fnResult.publicSonar, fnArg.sonarToken)
       THEN /\ fnResult' = [fnResult EXCEPT !.exitCode = 1]
            /\ pc' = "exit"
       ELSE /\ fnResult' = fnResult
            /\ pc' = "which"
    /\ UNCHANGED fnArg
    /\ UNCHANGED runVars

\* lines 57-67: `which sonar`
CheckScanner ==
    /\ pc = "which"
    /\ IF fnArg.scannerInstalled
       THEN /\ fnResult' = [fnResult EXCEPT
                              !.args = sonarArgs(fnResult.publicSonar, fnArg.sonarToken)]
            /\ pc' = "exec"
       ELSE /\ fnResult' = [fnResult EXCEPT !.exitCode = 1]
            /\ pc' = "exit"
    /\ UNCHANGED fnArg
    /\ UNCHANGED runVars

\* lines 92-125: the scanner runs; its failure is caught and exits with 1
ExecScanner ==
    /\ pc = "exec"
    /\ fnResult' = [fnResult EXCEPT
                      !.executed = TRUE,
                      !.exitCode = IF fnArg.scanSucceeds THEN 0 ELSE 1]
    /\ pc' = "exit"
    /\ UNCHANGED fnArg
    /\ UNCHANGED runVars

NextScan ==
    \/ LoadScanConfig
    \/ ValidateToken
    \/ CheckScanner
    \/ ExecScanner

SpecScan == InitScan /\ [][NextScan]_vars

\* an argument that names the token
IsTokenArg(arg) == \E i \in 1..Len(arg) : HasAt(arg, i, <<"t", "o", "k", "e", "n">>)

\* C25: the scan command needs SONAR_TOKEN only when Sonar is private. With
\* publicSonar true it goes on to the scanner without a token and gives it
\* no token argument; with publicSonar false or absent, or the file missing
\* or unreadable, a missing token ends the command with status 1 before the
\* scanner is looked for or executed.
C25_TokenOnlyWhenPrivate ==
    /\ fnArg.configFile = "true" =>
          /\ pc \in {"exec", "exit"} /\ fnArg.scannerInstalled =>
                /\ fnResult.args # <<>>
                /\ \A i \in 1..Len(fnResult.args) : ~IsTokenArg(fnResult.args[i])
          /\ (pc = "exit" /\ fnArg.scannerInstalled) => fnResult.executed
          /\ (pc = "exit" /\ fnArg.scannerInstalled /\ fnArg.scanSucceeds) =>
                fnResult.exitCode = 0
    /\ (fnArg.configFile # "true" /\ fnArg.sonarToken \in {Null, <<>>}) =>
          /\ pc \in {"loadConfig", "validate", "exit"}
          /\ ~fnResult.executed
          /\ fnResult.args = <<>>
          /\ pc = "exit" => fnResult.exitCode = 1
    /\ (fnArg.configFile # "true" /\ fnArg.sonarToken = Token /\ pc = "exec") =>
          \E i \in 1..Len(fnResult.args) : fnResult.args[i] = TokenArgPrefix \o Token

\* public Sonar, no token: the scanner ran, without a token argument
C25_Witness ==
    /\ pc = "exit"
    /\ fnArg.configFile = "true"
    /\ fnArg.sonarToken = Null
    /\ fnResult.executed
    /\ fnResult.exitCode = 0
    /\ Len(fnResult.args) = 3

====
